---- MODULE Spec2Model ----
(***************************************************************************)
(* Pipe-network flow solver of HW6_2_2_OOP.py: Fluid, Pipe, Node, Loop and *)
(* PipeNetwork, with findFlowRates' residual function fn as the solver's   *)
(* callback.                                                               *)
(*                                                                         *)
(* Numbers.  Python floats are modelled as exact fractions <<n, d>> with   *)
(* d >= 0, kept in lowest terms.  The IEEE special values are the          *)
(* fractions with denominator 0: <<1,0>> is +inf, <<-1,0>> is -inf and     *)
(* <<0,0>> is nan (numpy float64 arithmetic: x/0.0 is inf, inf*0.0 is nan).*)
(* Rounding is not modelled.                                               *)
(***************************************************************************)
EXTENDS Integers, Sequences, FiniteSets, TLC

VARIABLES fluid, pipes, nodes, loops, phase, solveN, evals, resid, ret, lists, objs

\* fluid, pipes, nodes, loops: the PipeNetwork's fields
\* phase: "idle", or "solving" while fsolve is running inside findFlowRates
\* solveN: findFlowRates' N; evals: 1 once fsolve has evaluated fn at Q0
\* resid: the list the latest call of fn returned
\* ret: the latest call made on the network and what it returned
\* lists: the list objects that constructor arguments are bound to, by address
\* objs: the PipeNetwork, Node and Loop instances whose list fields are
\*       followed by address
vars == <<fluid, pipes, nodes, loops, phase, solveN, evals, resid, ret, lists, objs>>

----------------------------------------------------------------------------
(* Exact fractions *)

Abs(x) == IF x < 0 THEN -x ELSE x

Sign(x) == IF x < 0 THEN -1 ELSE IF x > 0 THEN 1 ELSE 0

RECURSIVE GCD(_, _)
GCD(a, b) == IF b = 0 THEN a ELSE GCD(b, a % b)

\* gcd used for cancelling: never 0
Cancel(a, b) == LET g == GCD(Abs(a), Abs(b)) IN IF g = 0 THEN 1 ELSE g

Reduce(n, d, g) == <<Sign(d) * (n \div g), Abs(d) \div g>>

Norm(n, d) == IF d = 0 THEN <<Sign(n), 0>> ELSE Reduce(n, d, Cancel(n, d))

I(n) == <<n, 1>>

NaN == <<0, 0>>

Inf == <<1, 0>>

IsFinite(a) == a[2] # 0

RNeg(a) == <<-a[1], a[2]>>

MulBy(a, b, g1, g2) == Norm((a[1] \div g1) * (b[1] \div g2), (a[2] \div g2) * (b[2] \div g1))

\* a * b, cancelling across before multiplying
RMul(a, b) == MulBy(a, b, Cancel(a[1], b[2]), Cancel(b[1], a[2]))

\* 1 / b; 1/0 is +inf
Recip(b) == IF b[1] < 0 THEN <<-b[2], -b[1]>> ELSE <<b[2], b[1]>>

\* a / b; a finite value over zero is +-inf, 0/0 is nan
RDiv(a, b) == RMul(a, Recip(b))

AddBy(a, b, g) == Norm(a[1] * (b[2] \div g) + b[1] * (a[2] \div g), (a[2] \div g) * b[2])

\* a + b; inf + -inf is nan
RAdd(a, b) ==
    IF a[2] = 0 /\ b[2] = 0 THEN (IF a = b THEN a ELSE NaN)
    ELSE AddBy(a, b, Cancel(a[2], b[2]))

RSub(a, b) == RAdd(a, RNeg(b))

\* comparisons with nan are false, as in IEEE arithmetic
RLe(a, b) ==
    IF a = NaN \/ b = NaN THEN FALSE
    ELSE IF a[2] = 0 /\ b[2] = 0 THEN a[1] <= b[1]
    ELSE a[1] * b[2] <= b[1] * a[2]

RGe(a, b) == RLe(b, a)

----------------------------------------------------------------------------
(* Identifiers: single lower-case letters, ordered as Python orders str *)

NodeOrder == <<"a", "b", "c">>

NodeNames == {NodeOrder[i] : i \in 1..Len(NodeOrder)}

Rank(n) == CHOOSE i \in 1..Len(NodeOrder) : NodeOrder[i] = n

\* min(Start, End) and max(Start, End) on str
MinName(x, y) == IF Rank(y) < Rank(x) THEN y ELSE x

MaxName(x, y) == IF Rank(y) > Rank(x) THEN y ELSE x

----------------------------------------------------------------------------
(* Fluid *)

\* Fluid(mu, rho): nu = mu / rho
Fluid(mu, rho) == [mu |-> mu, rho |-> rho, nu |-> RDiv(mu, rho)]

\* Working fluids: rho = 1000 kg/m^3; with the pipe geometry below the
\* Reynolds number is 1000 * Q for mu = 7/1100 and 300 * Q for mu = 7/330
Medium == Fluid(<<7, 1100>>, I(1000))

Thick == Fluid(<<7, 330>>, I(1000))

----------------------------------------------------------------------------
(* Pipe *)

\* math.pi
Pi == <<22, 7>>

\* L in m, D in mm, r in m, as passed to the constructor
PipeL == 100

PipeD == 200

PipeR == <<1, 4000>>

\* initial guess for the flow rate in L/s
InitialQ == 10

\* V(): self.vel = (self.Q / 1000) / self.A
V(p) == [p EXCEPT !.vel = RDiv(RDiv(I(p.Q), I(1000)), p.A)]

\* Re(): self.reynolds = (rho * self.vel * self.diameter) / mu
Re(p, f) == [p EXCEPT !.reynolds = RDiv(RMul(RMul(f.rho, p.vel), p.diameter), f.mu)]

\* Pipe(Start, End, L, D, r, fluid)
PipeKeepOrder(Start, End, L, D, r, f) ==
    LET d == RDiv(I(D), I(1000))
        h == RDiv(d, I(2))
        p0 == [startNode |-> Start, endNode |-> End, length |-> L,
               diameter |-> d, r |-> r, A |-> RMul(Pi, RMul(h, h)),
               Q |-> InitialQ, vel |-> NaN, reynolds |-> NaN]
    IN  Re(V(p0), f)

Pipe(Start, End, L, D, r, f) ==
    LET d == RDiv(I(D), I(1000))
        h == RDiv(d, I(2))
        p0 == [startNode |-> MinName(Start, End), endNode |-> MaxName(Start, End),
               length |-> L, diameter |-> d, r |-> r, A |-> RMul(Pi, RMul(h, h)),
               Q |-> InitialQ, vel |-> NaN, reynolds |-> NaN]
    IN  Re(V(p0), f)

\* Name(): f'{self.startNode}-{self.endNode}'
Name(p) == p.startNode \o "-" \o p.endNode

\* oContainsNode(node)
oContainsNode(p, node) == p.startNode = node \/ p.endNode = node

\* getFlowIntoNode(n), in L/s
getFlowIntoNodeSwapped(p, n) == IF n = p.startNode THEN p.Q ELSE -p.Q

getFlowIntoNodeLeaving(p, n) == -p.Q

getFlowIntoNode(p, n) == IF n = p.startNode THEN -p.Q ELSE p.Q

\* CB(): fsolve's root of the Colebrook-White relation from f0 = 0.01, for
\* rr = r / diameter = 1/800, to four decimal places
CB(Rey, rr) ==
    CASE Rey = I(2000) /\ rr = <<1, 800>> -> <<63, 1250>>
      [] Rey = I(3000) /\ rr = <<1, 800>> -> <<223, 5000>>
      [] Rey = I(4000) /\ rr = <<1, 800>> -> <<103, 2500>>
      [] Rey = I(10000) /\ rr = <<1, 800>> -> <<327, 10000>>

\* lam(): 64 / Re; at Re = 0 numpy's float64 division gives inf
lam(Rey) == RDiv(I(64), Rey)

\* rnd.normalvariate(mean, sig): the draws modelled are mean - sig and mean + sig.
\* Only the transition branch draws; 0 stands for no draw
Samples == {-1, 1}

NoDraw == 0

normalvariate(mean, sig, s) == RAdd(mean, RMul(I(s), sig))

\* FrictionFactor() on a pipe whose Re() has just been stored; s is the draw
FrictionFactorExclusive(p, s) ==
    LET Rey == p.reynolds
        rr == RDiv(p.r, p.diameter)
    IN  IF ~RLe(Rey, I(4000)) THEN CB(Rey, rr)
        ELSE IF ~RGe(Rey, I(2000)) THEN lam(Rey)
        ELSE LET CBff == CB(Rey, rr)
                 Lamff == lam(Rey)
                 mean == RAdd(Lamff, RMul(RDiv(RSub(Rey, I(2000)), I(4000 - 2000)),
                                          RSub(CBff, Lamff)))
                 sig == RMul(<<1, 5>>, mean)
             IN  normalvariate(mean, sig, s)

FrictionFactor(p, s) ==
    LET Rey == p.reynolds
        rr == RDiv(p.r, p.diameter)
    IN  IF RGe(Rey, I(4000)) THEN CB(Rey, rr)
        ELSE IF RLe(Rey, I(2000)) THEN lam(Rey)
        ELSE LET CBff == CB(Rey, rr)
                 Lamff == lam(Rey)
                 mean == RAdd(Lamff, RMul(RDiv(RSub(Rey, I(2000)), I(4000 - 2000)),
                                          RSub(CBff, Lamff)))
                 sig == RMul(<<1, 5>>, mean)
             IN  normalvariate(mean, sig, s)

\* frictionHeadLoss(): Darcy-Weisbach with g = 9.81, on the stored vel
frictionHeadLoss(p, f, s) ==
    LET g == <<981, 100>>
        ff == FrictionFactor(Re(p, f), s)
    IN  RMul(RDiv(RMul(ff, I(p.length)), p.diameter),
             RDiv(RMul(p.vel, p.vel), RMul(I(2), g)))

\* getFlowHeadLoss(s): nTraverse * nFlow * frictionHeadLoss()
getFlowHeadLoss(p, f, node, s) ==
    LET nTraverse == IF node = p.startNode THEN 1 ELSE -1
        nFlow == IF p.Q >= 0 THEN 1 ELSE -1
    IN  RMul(I(nTraverse * nFlow), frictionHeadLoss(p, f, s))

----------------------------------------------------------------------------
(* Node and Loop; both hold references to the network's Pipe objects, which *)
(* are modelled as indices into the network's pipe list                     *)

\* Node(Name, Pipes, ExtFlow=0)
Node(name, ps) == [name |-> name, pipes |-> ps, extFlow |-> 0]

\* Loop(Name, Pipes)
Loop(name, ps) == [name |-> name, pipes |-> ps]

\* the for-loop of getNetFlowRate from the k-th incident pipe on, in m^3/s
RECURSIVE NetFlowFrom(_, _, _, _)
NetFlowFrom(ps, n, k, Qtot) ==
    IF k > Len(n.pipes) THEN Qtot
    ELSE NetFlowFrom(ps, n, k + 1,
                     RAdd(Qtot, RDiv(I(getFlowIntoNode(ps[n.pipes[k]], n.name)), I(1000))))

\* Node.getNetFlowRate()
getNetFlowRate(ps, n) == NetFlowFrom(ps, n, 1, RDiv(I(n.extFlow), I(1000)))

\* the traversal step of getLoopHeadLoss: the next traversal node
NextNode(p, node) == IF node # p.endNode THEN p.endNode ELSE p.startNode

\* the for-loop of getLoopHeadLoss from the k-th pipe on; sv[k] is the draw of
\* the k-th friction-factor evaluation
\* (path records the values the local startNode takes)
RECURSIVE LoopWalk(_, _, _, _, _, _, _)
LoopWalk(ps, f, lp, sv, k, path, deltaP) ==
    IF k > Len(lp.pipes) THEN [deltaP |-> deltaP, path |-> path]
    ELSE LET p == ps[lp.pipes[k]]
             node == path[Len(path)]
             phl == getFlowHeadLoss(p, f, node, sv[k])
         IN  LoopWalk(ps, f, lp, sv, k + 1, Append(path, NextNode(p, node)), RAdd(deltaP, phl))

\* Loop.getLoopHeadLoss(): the head loss, and the traversal nodes in order
getLoopHeadLoss(ps, f, lp, sv) ==
    LoopWalk(ps, f, lp, sv, 1, <<ps[lp.pipes[1]].startNode>>, I(0))

\* Re() is called on every pipe a head-loss evaluation visits
TouchRe(ps, f, visited) ==
    [i \in DOMAIN ps |-> IF i \in visited THEN Re(ps[i], f) ELSE ps[i]]

Range(sq) == {sq[i] : i \in DOMAIN sq}

RECURSIVE SeqsUpTo(_, _)
SeqsUpTo(S, n) ==
    IF n = 0 THEN {<<>>}
    ELSE LET shorter == SeqsUpTo(S, n - 1)
         IN  shorter \cup {Append(sq, x) : sq \in {t \in shorter : Len(t) = n - 1}, x \in S}

----------------------------------------------------------------------------
(* PipeNetwork *)

\* getPipe(name): the first pipe of that name (0 stands for None)
getPipe(ps, name) ==
    IF \E i \in DOMAIN ps : Name(ps[i]) = name
    THEN CHOOSE i \in DOMAIN ps : Name(ps[i]) = name /\ \A j \in 1..(i - 1) : Name(ps[j]) # name
    ELSE 0

\* getNodePipes(node): the pipes connected to the node, in list order
getNodePipesStartOnly(ps, node) == SelectSeq([i \in DOMAIN ps |-> i], LAMBDA i : ps[i].startNode = node)

getNodePipes(ps, node) == SelectSeq([i \in DOMAIN ps |-> i], LAMBDA i : oContainsNode(ps[i], node))

\* nodeBuilt(node)
nodeBuilt(ns, node) == \E i \in DOMAIN ns : ns[i].name = node

\* getNode(name): the first node of that name (0 stands for None)
getNode(ns, name) ==
    IF nodeBuilt(ns, name)
    THEN CHOOSE i \in DOMAIN ns : ns[i].name = name /\ \A j \in 1..(i - 1) : ns[j].name # name
    ELSE 0

\* the for-loop of buildNodes from the k-th pipe on
RECURSIVE BuildFrom(_, _, _)
BuildFrom(ps, ns, k) ==
    IF k > Len(ps) THEN ns
    ELSE LET p == ps[k]
             n1 == IF ~nodeBuilt(ns, p.startNode)
                   THEN Append(ns, Node(p.startNode, getNodePipes(ps, p.startNode)))
                   ELSE ns
             n2 == IF ~nodeBuilt(n1, p.endNode)
                   THEN Append(n1, Node(p.endNode, getNodePipes(ps, p.endNode)))
                   ELSE n1
         IN  BuildFrom(ps, n2, k + 1)

\* buildNodes(): the node list afterwards
buildNodes(ps, ns) == BuildFrom(ps, ns, 1)

\* getNodeFlowRates()
getNodeFlowRates(ps, ns) == [i \in DOMAIN ns |-> getNetFlowRate(ps, ns[i])]

\* getLoopHeadLosses(); sv[l] holds the draws of loop l's evaluation
getLoopHeadLosses(ps, f, ls, sv) ==
    [l \in DOMAIN ls |-> getLoopHeadLoss(ps, f, ls[l], sv[l]).deltaP]

\* the pipes that getLoopHeadLosses() visits
LoopPipes(ls) == UNION {Range(ls[l].pipes) : l \in DOMAIN ls}

----------------------------------------------------------------------------
(* Bounds and inputs *)

MaxPipes == 3

MaxLoops == 1

MaxLoopLen == 3

LoopNameOrder == <<"A", "B", "C">>

\* external flows a caller sets, in L/s: the node and the flow
ExtSettings == {<<"b", 60>>, <<"c", -15>>}

\* trial flows fsolve passes to fn, in L/s: for a single pipe they land on and
\* around the regime boundaries of the Medium fluid, Re = 1000 * Q
TrialVals(ps) == IF Len(ps) = 1 THEN {-2, 0, 1, 2, 3, 4, 10} ELSE {-3, 10}

Min(a, b) == IF a <= b THEN a ELSE b

None == [op |-> "none"]

\* the evaluations of FrictionFactor() that reach the transition branch
Transitional(p, f) ==
    LET Rey == Re(p, f).reynolds
    IN  ~RGe(Rey, I(4000)) /\ ~RLe(Rey, I(2000))

DrawsOf(p, f) == IF Transitional(p, f) THEN Samples ELSE {NoDraw}

\* the draws of one evaluation of a loop, one for every pipe visited
LoopDraws(ps, f, lp) ==
    {d \in [DOMAIN lp.pipes -> Samples \cup {NoDraw}] :
        \A k \in DOMAIN lp.pipes : d[k] \in DrawsOf(ps[lp.pipes[k]], f)}

\* the draws of one evaluation of every loop
SampleVectors(ps, f, ls) ==
    {sv \in [DOMAIN ls -> UNION {LoopDraws(ps, f, ls[l]) : l \in DOMAIN ls}] :
        \A l \in DOMAIN ls : sv[l] \in LoopDraws(ps, f, ls[l])}

----------------------------------------------------------------------------
(* Construction: main()'s calls on a PipeNetwork *)

\* the list objects the def statements create for the default arguments
\* Pipes=[], Loops=[], Nodes=[] of PipeNetwork.__init__, Pipes=[] of
\* Node.__init__ and Pipes=[] of Loop.__init__: one object per parameter,
\* made once, at its address in lists
DefaultArg ==
    [PipeNetwork |-> [pipes |-> 1, loops |-> 2, nodes |-> 3],
     Node |-> [pipes |-> 4],
     Loop |-> [pipes |-> 5]]

DefaultLists == << <<>>, <<>>, <<>>, <<>>, <<>> >>

\* no instance is followed by address
NoObjects ==
    /\ lists = DefaultLists
    /\ objs = <<>>

\* PipeNetwork() with lists of its own
EmptyNetwork(f) ==
    /\ fluid = f
    /\ pipes = <<>>
    /\ nodes = <<>>
    /\ loops = <<>>
    /\ phase = "idle"
    /\ solveN = 0
    /\ evals = 0
    /\ resid = <<>>
    /\ ret = None
    /\ NoObjects

\* PN.pipes.append(Pipe(Start, End, L, D, roughness, fluid))
AddPipe(Start, End) ==
    /\ phase = "idle"
    /\ Len(pipes) < MaxPipes
    /\ pipes' = Append(pipes, Pipe(Start, End, PipeL, PipeD, PipeR, fluid))
    /\ ret' = [op |-> "Pipe", Start |-> Start, End |-> End, pipe |-> Len(pipes) + 1]
    /\ UNCHANGED <<fluid, nodes, loops, phase, solveN, evals, resid, lists, objs>>

\* PN.buildNodes()
BuildNodes ==
    /\ phase = "idle"
    /\ nodes' = buildNodes(pipes, nodes)
    /\ ret' = [op |-> "buildNodes"]
    /\ UNCHANGED <<fluid, pipes, loops, phase, solveN, evals, resid, lists, objs>>

\* PN.getNode(name).extFlow = x
SetExtFlow(name, x) ==
    /\ phase = "idle"
    /\ getNode(nodes, name) # 0
    /\ nodes[getNode(nodes, name)].extFlow = 0
    /\ nodes' = [nodes EXCEPT ![getNode(nodes, name)].extFlow = x]
    /\ ret' = None
    /\ UNCHANGED <<fluid, pipes, loops, phase, solveN, evals, resid, lists, objs>>

\* PN.loops.append(Loop(name, [PN.getPipe(n1), PN.getPipe(n2), ...]))
AddLoop(names) ==
    /\ phase = "idle"
    /\ Len(loops) < MaxLoops
    /\ names # <<>>
    /\ loops' = Append(loops, Loop(LoopNameOrder[Len(loops) + 1],
                                   [k \in DOMAIN names |-> getPipe(pipes, names[k])]))
    /\ ret' = None
    /\ UNCHANGED <<fluid, pipes, nodes, phase, solveN, evals, resid, lists, objs>>

\* p.Name()
CallName(i) ==
    /\ phase = "idle"
    /\ ret' = [op |-> "Name", pipe |-> i, val |-> Name(pipes[i])]
    /\ UNCHANGED <<fluid, pipes, nodes, loops, phase, solveN, evals, resid, lists, objs>>

----------------------------------------------------------------------------
(* Solving: findFlowRates and its callback fn *)

\* findFlowRates up to the call of fsolve: N and Q0
StartSolve ==
    /\ phase = "idle"
    /\ Len(pipes) > 0
    /\ phase' = "solving"
    /\ solveN' = Len(nodes) + Len(loops)
    /\ evals' = 0
    /\ resid' = <<>>
    /\ ret' = None
    /\ UNCHANGED <<fluid, pipes, nodes, loops, lists, objs>>

\* the assignments of fn, had a reversed flow been stored as a positive flow
\* in a pipe turned round
WriteFlowsTurned(ps, q) ==
    [i \in DOMAIN ps |->
        IF i \notin DOMAIN q THEN ps[i]
        ELSE IF q[i] >= 0 THEN [ps[i] EXCEPT !.Q = q[i]]
        ELSE [ps[i] EXCEPT !.Q = -q[i], !.startNode = ps[i].endNode,
                           !.endNode = ps[i].startNode]]

\* the assignments of fn: pipe i gets q[i], for the entries q has
WriteFlows(ps, q) == [i \in DOMAIN ps |-> IF i \in DOMAIN q THEN [ps[i] EXCEPT !.Q = q[i]] ELSE ps[i]]

\* one call fn(q) by fsolve; q is Q0 in the first call.  Only q[i] for i below
\* the pipe count is read, and q has N entries: with more pipes than N the
\* read of q[N] raises IndexError, which ends findFlowRates
FnEval(q, sv) ==
    /\ phase = "solving"
    /\ evals = 0 => \A i \in DOMAIN q : q[i] = InitialQ
    /\ LET written == WriteFlows(pipes, q)
       IN  IF Len(pipes) > solveN
           THEN /\ pipes' = written
                /\ phase' = "idle"
                /\ ret' = [op |-> "findFlowRates", val |-> "IndexError",
                           written |-> Len(q), first |-> (evals = 0)]
                /\ UNCHANGED <<evals, resid>>
           ELSE /\ pipes' = TouchRe(written, fluid, LoopPipes(loops))
                /\ resid' = getNodeFlowRates(written, nodes)
                               \o getLoopHeadLosses(written, fluid, loops, sv)
                /\ evals' = 1
                /\ ret' = [op |-> "fn", q |-> q, sv |-> sv]
                /\ UNCHANGED phase
    /\ UNCHANGED <<fluid, nodes, loops, solveN, lists, objs>>

\* fsolve returns and findFlowRates returns FR, an array of N flows
EndSolve ==
    /\ phase = "solving"
    /\ evals = 1
    /\ phase' = "idle"
    /\ ret' = [op |-> "findFlowRates", val |-> "FR", len |-> solveN]
    /\ UNCHANGED <<fluid, pipes, nodes, loops, solveN, evals, resid, lists, objs>>

\* n.getNetFlowRate(), as printNetNodeFlows calls it
CallGetNetFlowRate(n) ==
    /\ phase = "idle"
    /\ ret' = [op |-> "getNetFlowRate", node |-> n, val |-> getNetFlowRate(pipes, nodes[n])]
    /\ UNCHANGED <<fluid, pipes, nodes, loops, phase, solveN, evals, resid, lists, objs>>

\* l.getLoopHeadLoss(), as printLoopHeadLoss calls it
CallGetLoopHeadLoss(l, sv) ==
    /\ phase = "idle"
    /\ LET out == getLoopHeadLoss(pipes, fluid, loops[l], sv)
       IN  ret' = [op |-> "getLoopHeadLoss", loop |-> l, sv |-> sv,
                   val |-> out.deltaP, path |-> out.path]
    /\ pipes' = TouchRe(pipes, fluid, Range(loops[l].pipes))
    /\ UNCHANGED <<fluid, nodes, loops, phase, solveN, evals, resid, lists, objs>>

----------------------------------------------------------------------------
(* Calls on one Pipe *)

\* p.V()
CallV(i) ==
    /\ phase = "idle"
    /\ pipes' = [pipes EXCEPT ![i] = V(pipes[i])]
    /\ ret' = [op |-> "V", pipe |-> i, val |-> V(pipes[i]).vel]
    /\ UNCHANGED <<fluid, nodes, loops, phase, solveN, evals, resid, lists, objs>>

\* p.Re()
CallRe(i) ==
    /\ phase = "idle"
    /\ pipes' = [pipes EXCEPT ![i] = Re(pipes[i], fluid)]
    /\ ret' = [op |-> "Re", pipe |-> i, val |-> Re(pipes[i], fluid).reynolds]
    /\ UNCHANGED <<fluid, nodes, loops, phase, solveN, evals, resid, lists, objs>>

\* p.FrictionFactor(); s is the draw normalvariate makes if it is called
CallFrictionFactor(i, s) ==
    /\ phase = "idle"
    /\ pipes' = [pipes EXCEPT ![i] = Re(pipes[i], fluid)]
    /\ ret' = [op |-> "FrictionFactor", pipe |-> i, s |-> s,
               val |-> FrictionFactor(Re(pipes[i], fluid), s)]
    /\ UNCHANGED <<fluid, nodes, loops, phase, solveN, evals, resid, lists, objs>>

----------------------------------------------------------------------------
(* Specifications *)

Solving ==
    \/ StartSolve
    \/ phase = "solving" /\ \E q \in [1..Min(Len(pipes), solveN) -> TrialVals(pipes)],
                                 sv \in SampleVectors(pipes, fluid, loops) : FnEval(q, sv)
    \/ EndSolve

\* a network from PipeNetwork() on: pipes added, nodes built, flows solved
Init == EmptyNetwork(Medium)

Next ==
    \/ \E Start \in NodeNames, End \in NodeNames : AddPipe(Start, End)
    \/ BuildNodes
    \/ \E i \in DOMAIN pipes : CallName(i)
    \/ Solving

Spec == Init /\ [][Next]_vars

\* the networks solved: a triangle a-b, a-c, b-c and three parallel pipes a-b,
\* constructed with the endpoints in either order, with the nodes built
Triangle == << <<"b", "a">>, <<"a", "c">>, <<"c", "b">> >>

Parallel == << <<"a", "b">>, <<"b", "a">>, <<"a", "b">> >>

PipesOf(args, f) == [i \in DOMAIN args |-> Pipe(args[i][1], args[i][2], PipeL, PipeD, PipeR, f)]

InitSolve ==
    \E net \in {<<Triangle, Medium>>, <<Parallel, Thick>>} :
        /\ fluid = net[2]
        /\ pipes = PipesOf(net[1], net[2])
        /\ nodes = buildNodes(PipesOf(net[1], net[2]), <<>>)
        /\ loops = <<>>
        /\ phase = "idle"
        /\ solveN = 0
        /\ evals = 0
        /\ resid = <<>>
        /\ ret = None
        /\ NoObjects

PipeNames == {Name(pipes[i]) : i \in DOMAIN pipes}

\* the loops a caller lists: pipe names, none twice
LoopListings ==
    {names \in SeqsUpTo(PipeNames, MaxLoopLen) :
        \A j \in DOMAIN names, k \in DOMAIN names : names[j] = names[k] => j = k}

NextSolve ==
    \/ \E e \in ExtSettings : SetExtFlow(e[1], e[2])
    \/ Len(loops) < MaxLoops /\ \E names \in LoopListings : AddLoop(names)
    \/ Solving
    \/ \E n \in DOMAIN nodes : CallGetNetFlowRate(n)
    \/ \E l \in DOMAIN loops : \E sv \in LoopDraws(pipes, fluid, loops[l]) : CallGetLoopHeadLoss(l, sv)

SpecSolve == InitSolve /\ [][NextSolve]_vars

\* one pipe a-b in the Medium fluid, with its two nodes built
InitPipe ==
    /\ fluid = Medium
    /\ pipes = PipesOf(<< <<"a", "b">> >>, Medium)
    /\ nodes = buildNodes(PipesOf(<< <<"a", "b">> >>, Medium), <<>>)
    /\ loops = <<>>
    /\ phase = "idle"
    /\ solveN = 0
    /\ evals = 0
    /\ resid = <<>>
    /\ ret = None
    /\ NoObjects

NextPipe ==
    \/ Solving
    \/ \E i \in DOMAIN pipes : CallV(i)
    \/ \E i \in DOMAIN pipes : CallRe(i)
    \/ \E i \in DOMAIN pipes, s \in Samples : CallFrictionFactor(i, s)

SpecPipe == InitPipe /\ [][NextPipe]_vars

----------------------------------------------------------------------------
(* Constructor arguments and the list objects they are bound to *)

MaxObjs == 3

MaxAppends == 2

\* the collection parameters in the order of PipeNetwork.__init__
FieldOrder == <<"pipes", "loops", "nodes">>

FieldsOf(cls) == SelectSeq(FieldOrder, LAMBDA f : f \in DOMAIN DefaultArg[cls])

PositionIn(fs, f) == CHOOSE k \in DOMAIN fs : fs[k] = f

\* self.pipes = Pipes (and self.loops = Loops, self.nodes = Nodes): the field
\* is bound to the object the parameter is bound to, the caller's list when
\* one is passed (own) and the default's object otherwise
BoundLists(cls, own, ls) ==
    [f \in DOMAIN DefaultArg[cls] |->
        IF own THEN Len(ls) + PositionIn(FieldsOf(cls), f) ELSE DefaultArg[cls][f]]

\* PipeNetwork(), Node() or Loop() (own = FALSE), or the same with a new
\* empty list passed for every collection parameter (own = TRUE)
NewObject(cls, own) ==
    /\ Len(objs) < MaxObjs
    /\ LET at == BoundLists(cls, own, lists)
       IN  /\ objs' = Append(objs, [cls |-> cls, default |-> ~own, at |-> at])
           /\ lists' = IF \E f \in DOMAIN at : at[f] > Len(lists)
                       THEN lists \o [k \in 1..Len(FieldsOf(cls)) |-> <<>>]
                       ELSE lists
    /\ ret' = [op |-> "new", obj |-> Len(objs) + 1]
    /\ UNCHANGED <<fluid, pipes, nodes, loops, phase, solveN, evals, resid>>

RECURSIVE TotalLen(_, _)
TotalLen(ls, k) == IF k > Len(ls) THEN 0 ELSE Len(ls[k]) + TotalLen(ls, k + 1)

\* obj.pipes.append(x), obj.loops.append(x) or obj.nodes.append(x)
AppendTo(i, f) ==
    /\ TotalLen(lists, 1) < MaxAppends
    /\ lists' = [lists EXCEPT ![objs[i].at[f]] = Append(@, "x")]
    /\ ret' = [op |-> "append", obj |-> i, field |-> f]
    /\ UNCHANGED <<fluid, pipes, nodes, loops, phase, solveN, evals, resid, objs>>

InitAlias == EmptyNetwork(Medium)

NextAlias ==
    \/ \E cls \in DOMAIN DefaultArg, own \in BOOLEAN : NewObject(cls, own)
    \/ \E i \in DOMAIN objs : \E f \in DOMAIN objs[i].at : AppendTo(i, f)

SpecAlias == InitAlias /\ [][NextAlias]_vars

----------------------------------------------------------------------------
(* Properties *)

\* the velocity that belongs to the flow a pipe holds
VelocityOf(p) == RDiv(I(p.Q), RMul(I(1000), p.A))

\* C1: after a residual evaluation has written the trial flows, every pipe of
\* every loop evaluated holds the velocity of the flow just written:
\* vel = (Q / 1000) / A
C1_VelocityRecomputed ==
    ret.op = "fn" => \A i \in LoopPipes(loops) : pipes[i].vel = VelocityOf(pipes[i])

\* the sum of the pipe flows into node n in L/s: -Q for a pipe that starts at
\* n, +Q for any other incident pipe
RECURSIVE InflowFrom(_, _, _)
InflowFrom(ps, n, k) ==
    IF k > Len(n.pipes) THEN 0
    ELSE (IF ps[n.pipes[k]].startNode = n.name THEN -ps[n.pipes[k]].Q ELSE ps[n.pipes[k]].Q)
         + InflowFrom(ps, n, k + 1)

ExpectedNetFlow(ps, n) == Norm(n.extFlow + InflowFrom(ps, n, 1), 1000)

\* C2: getNetFlowRate returns extFlow/1000 plus, over the node's incident
\* pipes, -Q/1000 for a pipe whose startNode is the node and +Q/1000 for any
\* other, both when called directly and inside a residual evaluation, and
\* the call changes no pipe, node or network state
C2_NetFlowRate ==
    [][/\ ret'.op = "getNetFlowRate" =>
            /\ ret'.val = ExpectedNetFlow(pipes, nodes[ret'.node])
            /\ UNCHANGED <<fluid, pipes, nodes, loops, phase, solveN, evals, resid>>
       /\ ret'.op = "fn" =>
            \A n \in DOMAIN nodes : resid'[n] = ExpectedNetFlow(pipes', nodes[n])]_vars

\* a node with an external flow, a pipe that starts at it carrying a reversed
\* flow and a pipe that ends at it has had its net flow rate taken
C2_Witness ==
    /\ ret.op = "getNetFlowRate"
    /\ nodes[ret.node].extFlow # 0
    /\ \E k \in DOMAIN nodes[ret.node].pipes :
          /\ pipes[nodes[ret.node].pipes[k]].startNode = nodes[ret.node].name
          /\ pipes[nodes[ret.node].pipes[k]].Q < 0
    /\ \E k \in DOMAIN nodes[ret.node].pipes :
          pipes[nodes[ret.node].pipes[k]].startNode # nodes[ret.node].name

\* C5: two successive residual evaluations on the same flow vector return
\* the same residual
C5_ResidualDeterministic ==
    [][(ret.op = "fn" /\ ret'.op = "fn" /\ ret'.q = ret.q) => resid' = resid]_vars

\* C6: findFlowRates on a network whose pipe count differs from node count +
\* loop count evaluates no residual, writes no trial flow and returns no
\* flow vector
C6_MismatchRejected ==
    Len(pipes) # solveN =>
        /\ ret.op # "fn"
        /\ ret.op = "findFlowRates" => (ret.val # "FR" /\ ret.written = 0)

\* the two endpoints of a pipe
Ends(p) == {p.startNode, p.endNode}

\* the loop is a closed cycle: its pipes, in order, join w[0] to w[1], w[1]
\* to w[2], ... and the last one comes back to w[0]
ClosedCycle(ps, lp) ==
    \E w \in [0..Len(lp.pipes) -> NodeNames] :
        /\ w[Len(lp.pipes)] = w[0]
        /\ \A k \in DOMAIN lp.pipes : Ends(ps[lp.pipes[k]]) = {w[k - 1], w[k]}

\* the head losses of pipes k.. of the loop, each with its traversal sign at
\* path[k] and its flow sign
RECURSIVE SignedLossFrom(_, _, _, _, _, _)
SignedLossFrom(ps, f, lp, sv, path, k) ==
    IF k > Len(lp.pipes) THEN I(0)
    ELSE LET p == ps[lp.pipes[k]]
             traversalSign == IF path[k] = p.startNode THEN 1 ELSE -1
             flowSign == IF p.Q >= 0 THEN 1 ELSE -1
             signed == IF traversalSign = flowSign THEN frictionHeadLoss(p, f, sv[k])
                       ELSE RNeg(frictionHeadLoss(p, f, sv[k]))
         IN  RAdd(signed, SignedLossFrom(ps, f, lp, sv, path, k + 1))

\* the traversal as the claim states it: it starts at the startNode of the
\* first pipe, every pipe adds magnitude * traversalSign * flowSign, and the
\* traversal node moves to an endpoint of the pipe that is not the current
\* traversal node (the same node only for a pipe from a node to itself)
TraversalAsStated ==
    ret.op = "getLoopHeadLoss" =>
        LET lp == loops[ret.loop]
        IN  /\ Len(ret.path) = Len(lp.pipes) + 1
            /\ ret.path[1] = pipes[lp.pipes[1]].startNode
            /\ \A k \in DOMAIN lp.pipes :
                  /\ ret.path[k + 1] \in Ends(pipes[lp.pipes[k]])
                  /\ ret.path[k + 1] = ret.path[k] => Ends(pipes[lp.pipes[k]]) = {ret.path[k]}
            /\ ret.val = SignedLossFrom(pipes, fluid, lp, ret.sv, ret.path, 1)

\* C3: getLoopHeadLoss traverses as stated, and for a loop that is a closed
\* cycle the traversal node after the last pipe is the starting node
C3_ClosedCycleReturns ==
    /\ TraversalAsStated
    /\ (ret.op = "getLoopHeadLoss" /\ ClosedCycle(pipes, loops[ret.loop])) =>
          ret.path[Len(ret.path)] = ret.path[1]

\* C4: every pipe has startNode < endNode in the identifier order
C4_StrictOrder ==
    \A i \in DOMAIN pipes : Rank(pipes[i].startNode) < Rank(pipes[i].endNode)

\* C4 as amended: a constructed pipe has the two arguments as its endpoints
\* with startNode <= endNode, and startNode < endNode when the arguments
\* differ; Name() is "startNode-endNode"; no step changes the endpoints of a
\* pipe or removes a pipe
C4_Canonical ==
    [][/\ ret'.op = "Pipe" =>
            /\ Ends(pipes'[ret'.pipe]) = {ret'.Start, ret'.End}
            /\ Rank(pipes'[ret'.pipe].startNode) <= Rank(pipes'[ret'.pipe].endNode)
            /\ ret'.Start # ret'.End =>
                  Rank(pipes'[ret'.pipe].startNode) < Rank(pipes'[ret'.pipe].endNode)
       /\ ret'.op = "Name" =>
            ret'.val = pipes[ret'.pipe].startNode \o "-" \o pipes[ret'.pipe].endNode
       /\ \A i \in DOMAIN pipes :
            /\ i \in DOMAIN pipes'
            /\ pipes'[i].startNode = pipes[i].startNode
            /\ pipes'[i].endNode = pipes[i].endNode]_vars

\* Pipe('b', 'a') has just been constructed as a-b in a network whose nodes
\* are built and whose first pipe holds a flow the solver wrote
C4_Witness ==
    /\ ret.op = "Pipe"
    /\ ret.Start = "b"
    /\ ret.End = "a"
    /\ Name(pipes[ret.pipe]) = "a-b"
    /\ nodes # <<>>
    /\ pipes[1].Q # InitialQ

\* one node for every endpoint of a pipe and no other, each listing exactly
\* the pipes that start or end at it, once each
NodesExact(ps, ns) ==
    /\ \A i \in DOMAIN ns, j \in DOMAIN ns : ns[i].name = ns[j].name => i = j
    /\ {ns[i].name : i \in DOMAIN ns} = UNION {Ends(ps[k]) : k \in DOMAIN ps}
    /\ \A i \in DOMAIN ns :
          /\ Range(ns[i].pipes) = {k \in DOMAIN ps : ns[i].name \in Ends(ps[k])}
          /\ Len(ns[i].pipes) = Cardinality(Range(ns[i].pipes))

\* C10: buildNodes on a network with no nodes yet, or with the nodes of its
\* pipes already built, leaves exactly one node per endpoint with exactly
\* its incident pipes; a repeated call changes nothing
C10_BuildNodes ==
    [][(ret'.op = "buildNodes" /\ (nodes = <<>> \/ NodesExact(pipes, nodes))) =>
            /\ NodesExact(pipes', nodes')
            /\ NodesExact(pipes, nodes) => nodes' = nodes
            /\ pipes' = pipes]_vars

\* the nodes of three pipes on three endpoints are built, one of them with
\* two incident pipes
C10_Witness ==
    /\ ret.op = "buildNodes"
    /\ Len(pipes) = 3
    /\ Len(nodes) = 3
    /\ NodesExact(pipes, nodes)
    /\ \E i \in DOMAIN nodes : Len(nodes[i].pipes) = 2

\* C7: FrictionFactor on a pipe whose Reynolds number is zero or negative
\* returns a well-defined (finite) value
C7_NonPositiveReFallback ==
    (ret.op = "FrictionFactor" /\ RLe(pipes[ret.pipe].reynolds, I(0))) => IsFinite(ret.val)

\* the Reynolds number of the speed |vel|
ReynoldsOfSpeed(p, f) ==
    RDiv(RMul(RMul(f.rho, <<Abs(p.vel[1]), p.vel[2]>>), p.diameter), f.mu)

\* C8: the Reynolds number is that of the flow magnitude: never negative, and
\* the same for flows Q and -Q
C8_ReynoldsOfMagnitude ==
    /\ \A i \in DOMAIN pipes : RGe(pipes[i].reynolds, I(0))
    /\ ret.op = "Re" => ret.val = ReynoldsOfSpeed(pipes[ret.pipe], fluid)

\* the blended mean of the transition branch
BlendedMean(Rey, fLam, fTurb) ==
    RAdd(fLam, RMul(Norm(Rey[1] - 2000 * Rey[2], 2000 * Rey[2]), RSub(fTurb, fLam)))

\* C9: FrictionFactor takes exactly one branch: 64/Re for Re <= 2000, the
\* Colebrook-White root for Re >= 4000, and only for 2000 < Re < 4000 a draw
\* around the blended mean, with standard deviation a fifth of the mean
C9_Regimes ==
    ret.op = "FrictionFactor" =>
        LET p == pipes[ret.pipe]
            Rey == p.reynolds
            fLam == Norm(64 * Rey[2], Rey[1])
            fTurb == CB(Rey, <<1, 800>>)
            mean == BlendedMean(Rey, fLam, fTurb)
        IN  /\ Rey[2] > 0
            /\ Rey[1] <= 2000 * Rey[2] => ret.val = fLam
            /\ Rey = I(2000) => ret.val = <<4, 125>>
            /\ Rey[1] >= 4000 * Rey[2] => ret.val = fTurb
            /\ (2000 * Rey[2] < Rey[1] /\ Rey[1] < 4000 * Rey[2]) =>
                  ret.val = RAdd(mean, RMul(<<ret.s, 5>>, mean))

\* FrictionFactor has returned 64/2000 at Re = 2000
C9_Witness ==
    /\ ret.op = "FrictionFactor"
    /\ pipes[ret.pipe].reynolds = I(2000)
    /\ ret.val = <<4, 125>>

\* the lists an instance holds, by field
Contents(o, ls) == [f \in DOMAIN o.at |-> ls[o.at[f]]]

\* C11: an append to a list of an instance constructed with default arguments
\* leaves the lists of every other instance constructed with default
\* arguments unchanged
C11_FreshCollections ==
    [][(ret'.op = "append" /\ lists' # lists /\ objs[ret'.obj].default) =>
            \A j \in DOMAIN objs :
                (j # ret'.obj /\ objs[j].default) =>
                    Contents(objs[j], lists') = Contents(objs[j], lists)]_vars

\* what the solver is to leave alone in a pipe
Geometry(p) ==
    [startNode |-> p.startNode, endNode |-> p.endNode, length |-> p.length,
     diameter |-> p.diameter, r |-> p.r, A |-> p.A]

\* C12: a step of findFlowRates (the set-up of N and Q0, a residual
\* evaluation, the return) changes no pipe's endpoints, length, diameter,
\* roughness or area, no node, no loop, no list's size and nothing of the
\* fluid
C12_SolveFrame ==
    [][(phase = "solving" \/ phase' = "solving") =>
            /\ fluid' = fluid
            /\ nodes' = nodes
            /\ loops' = loops
            /\ Len(pipes') = Len(pipes)
            /\ \A i \in DOMAIN pipes : Geometry(pipes'[i]) = Geometry(pipes[i])]_vars

\* a residual evaluation of a network with a loop and an external flow has
\* written a reversed flow into a pipe
C12_Witness ==
    /\ phase = "solving"
    /\ ret.op = "fn"
    /\ loops # <<>>
    /\ \E n \in DOMAIN nodes : nodes[n].extFlow # 0
    /\ \E i \in DOMAIN pipes : pipes[i].Q < 0

RECURSIVE SumNetFlow(_, _, _)
SumNetFlow(ps, ns, k) ==
    IF k > Len(ns) THEN I(0)
    ELSE RAdd(getNetFlowRate(ps, ns[k]), SumNetFlow(ps, ns, k + 1))

RECURSIVE SumExtFlow(_, _)
SumExtFlow(ns, k) == IF k > Len(ns) THEN 0 ELSE ns[k].extFlow + SumExtFlow(ns, k + 1)

\* the nodes are the ones buildNodes makes of the pipes, whatever external
\* flows were set since
BuiltFrom(ps, ns) ==
    /\ Len(ns) = Len(buildNodes(ps, <<>>))
    /\ \A k \in DOMAIN ns :
          /\ ns[k].name = buildNodes(ps, <<>>)[k].name
          /\ ns[k].pipes = buildNodes(ps, <<>>)[k].pipes

\* C13: in a network whose nodes are those buildNodes makes of its pipes, all
\* of them between two distinct endpoints, the net flow rates of the nodes
\* add up to the sum of the external flows / 1000 whatever flows the pipes
\* hold (sums taken exactly, without rounding)
C13_Conservation ==
    (/\ BuiltFrom(pipes, nodes)
     /\ \A i \in DOMAIN pipes : pipes[i].startNode # pipes[i].endNode) =>
        SumNetFlow(pipes, nodes, 1) = Norm(SumExtFlow(nodes, 1), 1000)

\* built nodes with external flows that do not cancel, and pipes holding
\* trial flows of both signs written by a residual evaluation
C13_Witness ==
    /\ ret.op = "fn"
    /\ BuiltFrom(pipes, nodes)
    /\ SumExtFlow(nodes, 1) # 0
    /\ \E i \in DOMAIN pipes : pipes[i].Q < 0
    /\ \E i \in DOMAIN pipes : pipes[i].Q > 0
    /\ \E n \in DOMAIN nodes : getNetFlowRate(pipes, nodes[n]) # I(0)

====
